---------------------------- MODULE Spec2Model ----------------------------
(***************************************************************************)
(* Piconsole: a Raspberry Pi (pi_bridge.py) relays full-screen snapshots   *)
(* of a shell session to a Pico (pico_main.py) over UART; the Pico shows a *)
(* scrollable 16x2 window of the snapshot and sends key tokens back.       *)
(*                                                                         *)
(* Bytes and characters are their integer codes; Python sequences are      *)
(* TLA+ sequences (1-based here, 0-based in the source).                   *)
(***************************************************************************)
EXTENDS Integers, Sequences, FiniteSets, TLC

VARIABLES
    \* ---- device (pico_main.py) ----
    term,       \* the TerminalView object: rows, cols, buffer, v_off, h_off
    lcd,        \* the characters the LCD shows, one string per LCD row
    stream,     \* every byte the UART has received so far, in order
    pos,        \* how many bytes of stream the firmware has consumed
    pc,         \* position of the main loop / read_frame
    ret,        \* the value read_frame returned last
    rf,         \* read_frame's locals: rows, cols, total, data; and idx, how
                \* far apply_snapshot has got
    callTerm,   \* term when the current read_frame call began
    callLcd,    \* lcd when the current read_frame call began
    callPos,    \* pos when the current read_frame call began
    rendered,   \* whether the main loop rendered in the current iteration
    enc,        \* per Encoder object: last, the phase (a << 1) | b seen last
    encObs,     \* per Encoder object, what an observer of its pins and of its
                \* callback has recorded (see ObsInit)
    clock,      \* milliseconds since the tick origin of the device
    btn,        \* per Button object: last_time
    presses,    \* the triggers the Button handlers have handled, in order
    uartTx,     \* the bytes written to the UART towards the host and not yet
                \* arrived there
    win,        \* what the call just made returned, when it was window_lines
    hist,       \* the calls made on the grid, in order
    \* ---- host (pi_bridge.py) ----
    screen,     \* the pyte screen: lines, columns, display
    sent,       \* how many frames the host has written to the serial port
    noise,      \* the bytes the line delivered before the host's first frame
    hpc,        \* where the host's loop is: "select", "pty", "stdin", "ser",
                \* "flush"; "done" after break, "raised" after an OSError,
                \* "interrupted" after KeyboardInterrupt
    rlist,      \* what select returned, among "pty", "stdin", "ser"
    wall,       \* time.time(), in milliseconds
    last_send,  \* last_send, in milliseconds
    ptyOut,     \* the shell's output not yet read from the pty
    kbd,        \* the bytes typed on stdin and not yet read
    serIn,      \* the bytes arrived at the host's serial port and not yet read
    child,      \* the shell: "alive" or "exited"
    cbreak,     \* whether stdin is in cbreak mode (its settings not restored)
    serLine,    \* line: what ser.readline() returned in this iteration, if it
                \* has read a line
    wrote,      \* the bytes the branch just run in this iteration wrote to
                \* the pty
    ptyData,    \* data: the shell output read from the pty in the iteration
                \* running or just ended
    events      \* how many events the host's surroundings have produced

devVars == <<term, lcd, stream, pos, pc, ret, rf, callTerm, callLcd, callPos, rendered>>
encVars == <<enc, encObs>>
btnVars == <<clock, btn, presses, uartTx>>
viewVars == <<win, hist>>
loopVars == <<hpc, rlist, wall, last_send, ptyOut, kbd, serIn, child, cbreak, serLine, wrote, ptyData, events>>
hostVars == <<screen, sent, noise, loopVars>>
vars == <<devVars, encVars, btnVars, viewVars, hostVars>>

-----------------------------------------------------------------------------
(* Configuration constants of pico_main.py *)
LCD_COLS == 16
LCD_ROWS == 2
TERM_ROWS == 24
TERM_COLS == 80
BTN_DEBOUNCE_MS == 200

(* Wire protocol bytes *)
STX == 2
ETX == 3
CMD_S == 83
SPACE == 32
PRINT_LO == 32
PRINT_HI == 126

Min(a, b) == IF a < b THEN a ELSE b
Max(a, b) == IF a > b THEN a ELSE b

\* ' ' * n
Spaces(n) == [i \in 1..n |-> SPACE]

\* Python s[a:b] for 0 <= a, 0 <= b
PySlice(s, a, b) == SubSeq(s, a + 1, Min(b, Len(s)))

\* Python list subscript s[i] is defined for -len <= i < len
PyIndexOK(s, i) == (0 <= i /\ i < Len(s)) \/ (i < 0 /\ -i <= Len(s))
PyIndex(s, i) == IF i >= 0 THEN s[i + 1] ELSE s[Len(s) + i + 1]

-----------------------------------------------------------------------------
(* TerminalView (pico_main.py) *)

\* chr(b) if 32 <= b <= 126 else ' '
DevChar(b) == IF PRINT_LO <= b /\ b <= PRINT_HI THEN b ELSE SPACE

TerminalView(rows, cols) ==
    [rows |-> rows, cols |-> cols,
     buffer |-> [r \in 1..rows |-> Spaces(cols)],
     v_off |-> 0, h_off |-> 0]

\* data_bytes[idx] raises IndexError when the payload is shorter than rows*cols
apply_raises(rows, cols, data_bytes) == Len(data_bytes) < rows * cols

\* The grid after apply_snapshot; when it raised, the cells filled before the
\* exception keep their new value and the others their old one.
apply_snapshot(t, rows, cols, data_bytes) ==
    LET t1 == IF rows # t.rows \/ cols # t.cols
              THEN TerminalView(rows, cols)
              ELSE t
    IN [t1 EXCEPT !.buffer =
            [r \in 1..rows |-> [c \in 1..cols |->
                IF (r - 1) * cols + c <= Len(data_bytes)
                THEN DevChar(data_bytes[(r - 1) * cols + c])
                ELSE t1.buffer[r][c]]]]

\* scroll_v without the upper clamp
scroll_v_unclamped(t, delta) == [t EXCEPT !.v_off = Max(0, t.v_off + delta)]

scroll_v(t, delta) == [t EXCEPT !.v_off = Max(0, Min(t.rows - 1, t.v_off + delta))]
scroll_h(t, delta) == [t EXCEPT !.h_off = Max(0, Min(t.cols - 1, t.h_off + delta))]

\* The row subscript window_lines uses for output row r (0-based)
WinRow(t, r) == Min(t.rows - 1, t.v_off + r)
WinEnd(t, width) == Min(t.cols, t.h_off + width)

\* One output line: the slice of row rr, padded to width
WinLine(t, rr, width) ==
    LET s == PySlice(PyIndex(t.buffer, rr), t.h_off, WinEnd(t, width))
    IN IF Len(s) < width THEN s \o Spaces(width - Len(s)) ELSE s

\* window_lines: raised is TRUE when a subscript raises IndexError; rowIdx and
\* colIdx are the row and column subscripts applied to the buffer.
window_lines(t, width, height) ==
    LET bad == {r \in 0..(height - 1) : ~PyIndexOK(t.buffer, WinRow(t, r))}
    IN [raised |-> bad # {},
        lines  |-> IF bad # {} THEN <<>>
                   ELSE [i \in 1..height |-> WinLine(t, WinRow(t, i - 1), width)],
        rowIdx |-> {WinRow(t, r) : r \in 0..(height - 1)},
        colIdx |-> IF height > 0 THEN t.h_off .. (WinEnd(t, width) - 1) ELSE {}]

\* lcd.write_str(s) at the start of an LCD row: the first LCD_COLS characters
write_str(s) == SubSeq(s, 1, Min(Len(s), LCD_COLS))

\* render(): raised when window_lines raised; otherwise the new LCD contents
render(t) ==
    LET w == window_lines(t, LCD_COLS, LCD_ROWS)
    IN [raised |-> w.raised,
        lcd    |-> IF w.raised THEN <<>> ELSE <<write_str(w.lines[1]), write_str(w.lines[2])>>]

-----------------------------------------------------------------------------
(* frame_bytes (pi_bridge.py): the screen flattened into one snapshot frame *)

\* ch if 32 <= ord(ch) <= 126 else " "
HostChar(ch) == IF PRINT_LO <= ch /\ ch <= PRINT_HI THEN ch ELSE SPACE

\* str.encode("ascii", "replace"): one byte per character, '?' for non-ASCII
EncodeAsciiReplace(s) == [i \in 1..Len(s) |-> IF s[i] < 128 THEN s[i] ELSE 63]

\* One display line made exactly cols long and encoded
FrameLine(scr, r) ==
    LET raw  == IF r <= Len(scr.display) THEN scr.display[r] ELSE <<>>
        san  == [i \in 1..Len(raw) |-> HostChar(raw[i])]
        line == IF Len(san) < scr.columns
                THEN san \o Spaces(scr.columns - Len(san))
                ELSE SubSeq(san, 1, scr.columns)
    IN EncodeAsciiReplace(line)

\* payload.extend(line) for r in range(rows): the lines lo..hi in order
\* (halving keeps the evaluation shallow for a screen of 255 lines)
RECURSIVE FramePayload(_, _, _)
FramePayload(scr, lo, hi) ==
    IF lo > hi THEN <<>>
    ELSE IF lo = hi THEN FrameLine(scr, lo)
    ELSE FramePayload(scr, lo, (lo + hi) \div 2) \o FramePayload(scr, (lo + hi) \div 2 + 1, hi)

\* frame_bytes with the two count bytes in the wrong order
frame_bytes_swapped(scr) ==
    <<STX, CMD_S, scr.columns % 256, scr.lines % 256>> \o FramePayload(scr, 1, scr.lines) \o <<ETX>>

frame_bytes(scr) ==
    <<STX, CMD_S, scr.lines % 256, scr.columns % 256>> \o FramePayload(scr, 1, scr.lines) \o <<ETX>>

-----------------------------------------------------------------------------
(* The UART receive side and read_frame (pico_main.py) *)

\* The bytes received and not yet read
Rx == SubSeq(stream, pos + 1, Len(stream))

\* uart.read(n): the bytes available, at most n (an empty result is None)
UartRead(n) == SubSeq(Rx, 1, Min(n, Len(Rx)))

NoFrame == [rows |-> 0, cols |-> 0, total |-> 0, data |-> <<>>, idx |-> 0]

\* read_frame returns val, leaving the grid as t, and the main loop goes on:
\* `if read_frame(): render()`, then utime.sleep_ms(2). An exception raised by
\* render is caught nowhere and ends the main loop.
Return(val, t) ==
    /\ ret' = val
    /\ rf' = NoFrame
    /\ term' = t
    /\ IF val
       THEN IF render(t).raised
            THEN pc' = "crashed" /\ UNCHANGED <<lcd, rendered>>
            ELSE pc' = "sleep" /\ lcd' = render(t).lcd /\ rendered' = TRUE
       ELSE pc' = "sleep" /\ UNCHANGED <<lcd, rendered>>

\* An exception raised inside read_frame is caught nowhere either
Crash(t) ==
    /\ pc' = "crashed"
    /\ term' = t
    /\ ret' = FALSE
    /\ rf' = NoFrame
    /\ UNCHANGED <<lcd, rendered>>

\* The main loop calls read_frame: uart.any(), then the start marker
ReadStx ==
    /\ pc = "poll"
    /\ IF Len(Rx) = 0
       THEN Return(FALSE, term) /\ UNCHANGED pos
       ELSE /\ pos' = pos + 1
            /\ IF Rx[1] # STX
               THEN Return(FALSE, term)
               ELSE pc' = "cmd" /\ UNCHANGED <<ret, rf, term, lcd, rendered>>
    /\ UNCHANGED <<stream, callTerm, callLcd, callPos, encVars, btnVars, viewVars, hostVars>>

\* cmd = uart.read(1); must be b'S'
ReadCmd ==
    /\ pc = "cmd"
    /\ LET cmd == UartRead(1) IN
         /\ pos' = pos + Len(cmd)
         /\ IF cmd # <<CMD_S>>
            THEN Return(FALSE, term)
            ELSE pc' = "hdr" /\ UNCHANGED <<ret, rf, term, lcd, rendered>>
    /\ UNCHANGED <<stream, callTerm, callLcd, callPos, encVars, btnVars, viewVars, hostVars>>

\* hdr = uart.read(2); rows, cols, total; an empty payload goes straight to etx
ReadHdr ==
    /\ pc = "hdr"
    /\ LET hdr == UartRead(2) IN
         /\ pos' = pos + Len(hdr)
         /\ IF Len(hdr) < 2
            THEN Return(FALSE, term)
            ELSE /\ rf' = [rows |-> hdr[1], cols |-> hdr[2],
                           total |-> hdr[1] * hdr[2], data |-> <<>>, idx |-> 0]
                 /\ pc' = IF hdr[1] * hdr[2] > 0 THEN "data" ELSE "etx"
                 /\ UNCHANGED <<ret, term, lcd, rendered>>
    /\ UNCHANGED <<stream, callTerm, callLcd, callPos, encVars, btnVars, viewVars, hostVars>>

\* ReadData without the loop: one uart.read, then the end marker
ReadData_once ==
    /\ pc = "data"
    /\ Len(rf.data) < rf.total
    /\ Len(Rx) > 0
    /\ LET chunk == UartRead(rf.total - Len(rf.data)) IN
         /\ pos' = pos + Len(chunk)
         /\ rf' = [rf EXCEPT !.data = rf.data \o chunk]
         /\ pc' = "etx"
    /\ UNCHANGED <<stream, term, lcd, ret, rendered, callTerm, callLcd, callPos, encVars, btnVars, viewVars, hostVars>>

\* ReadData giving the call up when uart.read returns None
ReadData_giveUp ==
    /\ pc = "data"
    /\ Len(rf.data) < rf.total
    /\ LET chunk == UartRead(rf.total - Len(rf.data)) IN
         /\ pos' = pos + Len(chunk)
         /\ IF Len(chunk) = 0
            THEN Return(FALSE, term)
            ELSE /\ rf' = [rf EXCEPT !.data = rf.data \o chunk]
                 /\ pc' = IF Len(rf.data) + Len(chunk) < rf.total THEN "data" ELSE "etx"
                 /\ UNCHANGED <<term, lcd, ret, rendered>>
    /\ UNCHANGED <<stream, callTerm, callLcd, callPos, encVars, btnVars, viewVars, hostVars>>

\* One pass of `while len(data) < total` that read something; a pass whose
\* uart.read returns None changes nothing and is a stuttering step.
ReadData ==
    /\ pc = "data"
    /\ Len(rf.data) < rf.total
    /\ Len(Rx) > 0
    /\ LET chunk == UartRead(rf.total - Len(rf.data)) IN
         /\ pos' = pos + Len(chunk)
         /\ rf' = [rf EXCEPT !.data = rf.data \o chunk]
         /\ pc' = IF Len(rf.data) + Len(chunk) < rf.total THEN "data" ELSE "etx"
    /\ UNCHANGED <<stream, term, lcd, ret, rendered, callTerm, callLcd, callPos, encVars, btnVars, viewVars, hostVars>>

\* ReadEtx applying the snapshot before it looks at the end marker
ReadEtx_applyFirst ==
    /\ pc = "etx"
    /\ LET etx == UartRead(1) IN
         /\ pos' = pos + Len(etx)
         /\ IF etx # <<ETX>>
            THEN IF apply_raises(rf.rows, rf.cols, rf.data)
                 THEN Crash(apply_snapshot(term, rf.rows, rf.cols, rf.data))
                 ELSE Return(FALSE, apply_snapshot(term, rf.rows, rf.cols, rf.data))
            ELSE /\ pc' = IF rf.rows # term.rows \/ rf.cols # term.cols THEN "resize" ELSE "fill"
                 /\ rf' = [rf EXCEPT !.idx = 0]
                 /\ UNCHANGED <<ret, term, lcd, rendered>>
    /\ UNCHANGED <<stream, callTerm, callLcd, callPos, encVars, btnVars, viewVars, hostVars>>

\* etx = uart.read(1); on 0x03 term.apply_snapshot(rows, cols, data) begins
ReadEtx ==
    /\ pc = "etx"
    /\ LET etx == UartRead(1) IN
         /\ pos' = pos + Len(etx)
         /\ IF etx # <<ETX>>
            THEN Return(FALSE, term)
            ELSE /\ pc' = IF rf.rows # term.rows \/ rf.cols # term.cols THEN "resize" ELSE "fill"
                 /\ rf' = [rf EXCEPT !.idx = 0]
                 /\ UNCHANGED <<ret, term, lcd, rendered>>
    /\ UNCHANGED <<stream, callTerm, callLcd, callPos, encVars, btnVars, viewVars, hostVars>>

\* ApplyResize leaving the offsets where the old grid had them
ApplyResize_keepOffsets ==
    /\ pc = "resize"
    /\ term' = CASE rf.idx = 0 -> [term EXCEPT !.rows = rf.rows]
                 [] rf.idx = 1 -> [term EXCEPT !.cols = rf.cols]
                 [] rf.idx = 2 -> [term EXCEPT !.buffer = [r \in 1..rf.rows |-> Spaces(rf.cols)]]
                 [] OTHER      -> term
    /\ rf' = [rf EXCEPT !.idx = IF rf.idx < 4 THEN rf.idx + 1 ELSE 0]
    /\ pc' = IF rf.idx < 4 THEN "resize" ELSE "fill"
    /\ UNCHANGED <<ret, lcd, rendered, pos>>
    /\ UNCHANGED <<stream, callTerm, callLcd, callPos, encVars, btnVars, viewVars, hostVars>>

\* apply_snapshot's resize, one assignment at a time: rows, cols, buffer,
\* v_off, h_off
ApplyResize ==
    /\ pc = "resize"
    /\ term' = CASE rf.idx = 0 -> [term EXCEPT !.rows = rf.rows]
                 [] rf.idx = 1 -> [term EXCEPT !.cols = rf.cols]
                 [] rf.idx = 2 -> [term EXCEPT !.buffer = [r \in 1..rf.rows |-> Spaces(rf.cols)]]
                 [] rf.idx = 3 -> [term EXCEPT !.v_off = 0]
                 [] OTHER      -> [term EXCEPT !.h_off = 0]
    /\ rf' = [rf EXCEPT !.idx = IF rf.idx < 4 THEN rf.idx + 1 ELSE 0]
    /\ pc' = IF rf.idx < 4 THEN "resize" ELSE "fill"
    /\ UNCHANGED <<ret, lcd, rendered, pos>>
    /\ UNCHANGED <<stream, callTerm, callLcd, callPos, encVars, btnVars, viewVars, hostVars>>

\* apply_snapshot's fill, one cell at a time; after the last cell read_frame
\* returns True. data_bytes[idx] beyond the payload raises IndexError.
ApplyFill ==
    /\ pc = "fill"
    /\ IF rf.idx >= rf.rows * rf.cols
       THEN Return(TRUE, term)
       ELSE IF rf.idx >= Len(rf.data)
            THEN Crash(term)
            ELSE /\ term' = [term EXCEPT !.buffer[(rf.idx \div rf.cols) + 1][(rf.idx % rf.cols) + 1] =
                                              DevChar(rf.data[rf.idx + 1])]
                 /\ rf' = [rf EXCEPT !.idx = rf.idx + 1]
                 /\ UNCHANGED <<pc, ret, lcd, rendered>>
    /\ UNCHANGED pos
    /\ UNCHANGED <<stream, callTerm, callLcd, callPos, encVars, btnVars, viewVars, hostVars>>

\* The sleep is over and the next iteration's read_frame call begins with the
\* state as it is now
Sleep ==
    /\ pc = "sleep"
    /\ pc' = "poll"
    /\ rendered' = FALSE /\ ret' = FALSE
    /\ callTerm' = term /\ callLcd' = lcd /\ callPos' = pos
    /\ UNCHANGED <<term, lcd, stream, pos, rf, encVars, btnVars, viewVars, hostVars>>

MainLoop ==
    ReadStx \/ ReadCmd \/ ReadHdr \/ ReadData \/ ReadEtx \/ ApplyResize \/ ApplyFill \/ Sleep

-----------------------------------------------------------------------------
(* Initial states *)

\* "Pico Term Viewer" and "Waiting for Pi..." cut to the LCD's 16 columns
Splash ==
    << <<80,105,99,111,32,84,101,114,109,32,86,105,101,119,101,114>>,
       <<87,97,105,116,105,110,103,32,102,111,114,32,80,105,46,46>> >>

\* The host is not part of the specification at hand
NoScreen == [lines |-> 0, columns |-> 0, display |-> <<>>]

\* The firmware as its main loop starts
BootTerm == TerminalView(TERM_ROWS, TERM_COLS)

\* The firmware some time later: a 2x2 snapshot of 'Z' has been applied and
\* shown, and each encoder has moved the viewport by one step.
SeenTerm == scroll_h(scroll_v(apply_snapshot(BootTerm, 2, 2, <<90, 90, 90, 90>>), 1), 1)

\* The main loop at its top, with grid t, LCD contents l and the bytes q in the
\* UART's receive buffer
DevAt(t, l, q) ==
    /\ term = t
    /\ lcd = l
    /\ stream = q /\ pos = 0
    /\ pc = "poll" /\ ret = FALSE /\ rf = NoFrame
    /\ callTerm = t /\ callLcd = l /\ callPos = 0
    /\ rendered = FALSE

\* The host's loop before its first iteration: time.time() is far above the
\* flush interval, nothing has arrived
LoopAt(t) ==
    /\ hpc = "select" /\ rlist = {}
    /\ wall = t /\ last_send = 0
    /\ ptyOut = <<>> /\ kbd = <<>> /\ serIn = <<>>
    /\ child = "alive" /\ cbreak = TRUE
    /\ serLine = <<>> /\ wrote = <<>> /\ ptyData = <<>>
    /\ events = 0

LoopIdle == LoopAt(1000)

HostIdle == screen = NoScreen /\ sent = 0 /\ noise = <<>> /\ LoopIdle

\* No window_lines call has just returned
NoWindow ==
    [called |-> FALSE, width |-> 0, height |-> 0, rows |-> 0, cols |-> 0,
     res |-> [raised |-> FALSE, lines |-> <<>>, rowIdx |-> {}, colIdx |-> {}]]

ViewIdle == win = NoWindow /\ hist = <<>>

Buttons == {"v", "h"}

\* The buttons as constructed at the tick origin: nothing pressed or written
BtnIdle ==
    /\ clock = 0
    /\ btn = [b \in Buttons |-> [last_time |-> 0]]
    /\ presses = <<>>
    /\ uartTx = <<>>

-----------------------------------------------------------------------------
(* Encoder (pico_main.py) *)

Encoders == {"v", "h"}

\* What the observer records per encoder: seen, the phase presented last;
\* edges, the handler's invocations; count and sum, the number and the sum of
\* the directions passed to the step callback; fwd (rev), how many transitions
\* have been presented when they are, from phase 00 on, exactly the sequence
\* 00->01->11->10->00... (00->10->11->01->00...), and -1 otherwise.
ObsInit(p) ==
    [seen |-> p, edges |-> 0, count |-> 0, sum |-> 0,
     fwd |-> IF p = 0 THEN 0 ELSE -1, rev |-> IF p = 0 THEN 0 ELSE -1]

\* The encoders with their pins at phase 3 (both pulled up): nothing recorded
EncIdle == enc = [e \in Encoders |-> [last |-> 3]] /\ encObs = [e \in Encoders |-> ObsInit(3)]

FwdNext(p) == CASE p = 0 -> 1 [] p = 1 -> 3 [] p = 3 -> 2 [] p = 2 -> 0
RevNext(p) == CASE p = 0 -> 2 [] p = 2 -> 3 [] p = 3 -> 1 [] p = 1 -> 0

\* The direction with the fourth pair mistyped
EncDirection_typo(last, state) ==
    IF \/ (last = 0 /\ state = 1)
       \/ (last = 1 /\ state = 3)
       \/ (last = 3 /\ state = 2)
       \/ (last = 2 /\ state = 1)
    THEN 1 ELSE -1

\* Gray code decoding: +1 for the four forward pairs, -1 for anything else
EncDirection(last, state) ==
    IF \/ (last = 0 /\ state = 1)
       \/ (last = 1 /\ state = 3)
       \/ (last = 3 /\ state = 2)
       \/ (last = 2 /\ state = 0)
    THEN 1 ELSE -1

\* on_v_step / on_h_step: the grid after the scroll
on_step(e, t, direction) ==
    IF e = "v" THEN scroll_v(t, -direction) ELSE scroll_h(t, direction)

\* The observer's record after the handler ran with the pins at state;
\* stepped tells whether the callback was invoked, with direction
Observe(o, state, stepped, direction) ==
    [seen  |-> state,
     edges |-> o.edges + 1,
     count |-> IF stepped THEN o.count + 1 ELSE o.count,
     sum   |-> IF stepped THEN o.sum + direction ELSE o.sum,
     fwd   |-> IF state = o.seen THEN o.fwd
               ELSE IF o.fwd >= 0 /\ state = FwdNext(o.seen) THEN o.fwd + 1 ELSE -1,
     rev   |-> IF state = o.seen THEN o.rev
               ELSE IF o.rev >= 0 /\ state = RevNext(o.seen) THEN o.rev + 1 ELSE -1]

MaxEdges == 8

\* Encoder._handler storing the phase only after a callback that returned
Encoder_handler_lastAfter(e, state) ==
    /\ encObs["v"].edges + encObs["h"].edges < MaxEdges
    /\ LET last      == enc[e].last
           direction == EncDirection(last, state)
           t1        == on_step(e, term, direction)
       IN IF state = last
          THEN /\ encObs' = [encObs EXCEPT ![e] = Observe(@, state, FALSE, 0)]
               /\ UNCHANGED <<enc, term, lcd>>
          ELSE /\ enc' = IF render(t1).raised THEN enc ELSE [enc EXCEPT ![e].last = state]
               /\ term' = t1
               /\ lcd' = IF render(t1).raised THEN lcd ELSE render(t1).lcd
               /\ encObs' = [encObs EXCEPT ![e] = Observe(@, state, TRUE, direction)]
    /\ UNCHANGED <<stream, pos, pc, ret, rf, callTerm, callLcd, callPos, rendered, btnVars, viewVars, hostVars>>

\* Encoder._handler of encoder e with the pins read as state, and the step
\* callback it invokes: the scroll, then render(), whose exception the
\* handler swallows
Encoder_handler(e, state) ==
    /\ encObs["v"].edges + encObs["h"].edges < MaxEdges
    /\ LET last      == enc[e].last
           direction == EncDirection(last, state)
           t1        == on_step(e, term, direction)
       IN IF state = last
          THEN /\ encObs' = [encObs EXCEPT ![e] = Observe(@, state, FALSE, 0)]
               /\ UNCHANGED <<enc, term, lcd>>
          ELSE /\ enc' = [enc EXCEPT ![e].last = state]
               /\ term' = t1
               /\ lcd' = IF render(t1).raised THEN lcd ELSE render(t1).lcd
               /\ encObs' = [encObs EXCEPT ![e] = Observe(@, state, TRUE, direction)]
    /\ UNCHANGED <<stream, pos, pc, ret, rf, callTerm, callLcd, callPos, rendered, btnVars, viewVars, hostVars>>

\* The encoders as constructed, their pins at 00 or at rest, before any edge
InitEncoder ==
    /\ DevAt(SeenTerm, render(SeenTerm).lcd, <<>>)
    /\ enc \in [Encoders -> [last : {0, 3}]]
    /\ encObs = [e \in Encoders |-> ObsInit(enc[e].last)]
    /\ BtnIdle
    /\ ViewIdle
    /\ HostIdle

NextEncoder == \E e \in Encoders : \E state \in 0..3 : Encoder_handler(e, state)

SpecEncoder == InitEncoder /\ [][NextEncoder]_vars

\* C5: when the transitions presented to an encoder that started at phase 00
\* are N full cycles 00->01->11->10->00, the directions passed to its callback
\* sum to +4N; when they are N full cycles 00->10->11->01->00, to -4N.
C5_QuadratureSum ==
    \A e \in Encoders : \A N \in 0..MaxEdges :
        /\ encObs[e].fwd = 4 * N => encObs[e].sum = 4 * N
        /\ encObs[e].rev = 4 * N => encObs[e].sum = -4 * N

\* C5 witness: one encoder has been turned a full cycle forward and the other
\* a full cycle backward
C5_Witness == encObs["v"].fwd = 4 /\ encObs["h"].rev = 4

-----------------------------------------------------------------------------
(* Button (pico_main.py) *)

\* utime.ticks_ms() wraps at this period; ticks_diff is the signed difference
\* within it
TICKS_PERIOD == 1073741824
ticks_ms(c) == c % TICKS_PERIOD
ticks_diff(a, b) == ((a - b + TICKS_PERIOD \div 2) % TICKS_PERIOD) - TICKS_PERIOD \div 2

\* b"KEY:ENTER\n" and b"KEY:BACKSPACE\n"
KEY_ENTER == <<75, 69, 89, 58, 69, 78, 84, 69, 82, 10>>
KEY_BACKSPACE == <<75, 69, 89, 58, 66, 65, 67, 75, 83, 80, 65, 67, 69, 10>>

\* on_btn_v / on_btn_h: the token the button's click writes to the UART
on_click(b) == IF b = "v" THEN KEY_ENTER ELSE KEY_BACKSPACE

\* The test that makes the handler return at once
debounced(now, last_time) == ticks_diff(now, last_time) < BTN_DEBOUNCE_MS

MaxPresses == 3

\* The pauses between two events on the device, in milliseconds
Pauses ==
    {0, 189, 190, 191, 200, TICKS_PERIOD \div 2 - 11, TICKS_PERIOD \div 2 - 10}

\* Button._handler sending the token without sampling the pin again
Button_handler_noResample(b, d, low) ==
    /\ Len(presses) < MaxPresses
    /\ LET at  == clock + d
           now == ticks_ms(at)
       IN IF debounced(now, btn[b].last_time)
          THEN /\ clock' = at
               /\ presses' = Append(presses, [button |-> b, t |-> at, accepted |-> FALSE, sent |-> FALSE])
               /\ UNCHANGED <<btn, uartTx>>
          ELSE /\ btn' = [btn EXCEPT ![b].last_time = now]
               /\ clock' = at + 10
               /\ uartTx' = uartTx \o on_click(b)
               /\ presses' = Append(presses, [button |-> b, t |-> at, accepted |-> TRUE, sent |-> low])
    /\ UNCHANGED <<devVars, encVars, viewVars, hostVars>>

\* Button._handler of button b, entered d milliseconds after the previous
\* event; low tells whether the pin still reads 0 after the 10 ms settle delay
Button_handler(b, d, low) ==
    /\ Len(presses) < MaxPresses
    /\ LET at  == clock + d
           now == ticks_ms(at)
       IN IF debounced(now, btn[b].last_time)
          THEN /\ clock' = at
               /\ presses' = Append(presses, [button |-> b, t |-> at, accepted |-> FALSE, sent |-> FALSE])
               /\ UNCHANGED <<btn, uartTx>>
          ELSE /\ btn' = [btn EXCEPT ![b].last_time = now]
               /\ clock' = at + 10
               /\ uartTx' = IF low THEN uartTx \o on_click(b) ELSE uartTx
               /\ presses' = Append(presses, [button |-> b, t |-> at, accepted |-> TRUE, sent |-> low])
    /\ UNCHANGED <<devVars, encVars, viewVars, hostVars>>

InitButton == DevAt(SeenTerm, render(SeenTerm).lcd, <<>>) /\ EncIdle /\ BtnIdle /\ ViewIdle /\ HostIdle

NextButton == \E b \in Buttons : \E d \in Pauses : \E low \in BOOLEAN : Button_handler(b, d, low)

SpecButton == InitButton /\ [][NextButton]_vars

\* The triggers of button b, in order
TriggersOf(b) == SelectSeq(presses, LAMBDA p : p.button = b)

\* C6: the first two triggers of a button, at t1 <= t2, are decided
\* (accepted, rejected) when t2 - t1 < 200 and (accepted, accepted) when
\* t2 - t1 > 200, whatever t1 is.
C6_DebounceSequence ==
    \A b \in Buttons :
        Len(TriggersOf(b)) >= 2 =>
            LET p1 == TriggersOf(b)[1]
                p2 == TriggersOf(b)[2]
            IN /\ p2.t - p1.t < BTN_DEBOUNCE_MS => (p1.accepted /\ ~p2.accepted)
               /\ p2.t - p1.t > BTN_DEBOUNCE_MS => (p1.accepted /\ p2.accepted)

\* The time at which button b's last_time was last set: its latest accepted
\* trigger, or the tick origin
LastAccepted(b) ==
    LET ts == {presses[i].t : i \in {k \in DOMAIN presses :
                                        presses[k].button = b /\ presses[k].accepted}}
    IN IF ts = {} THEN 0 ELSE CHOOSE t \in ts : \A u \in ts : u <= t

\* What the claim says of last_time on a step in which button b's handler ran
\* on trigger p: it changes only when p came 200 ms or more after
\* last_time was set and then becomes the time of p, and a suppressed
\* trigger changes no state and emits nothing
LastTimeDiscipline(b, p) ==
    IF p.accepted
    THEN /\ p.t - LastAccepted(b) >= BTN_DEBOUNCE_MS
         /\ btn' = [btn EXCEPT ![b].last_time = ticks_ms(p.t)]
    ELSE btn' = btn /\ uartTx' = uartTx

\* Button b's tokens were sent at most once in any window shorter than the
\* debounce interval
OncePerWindow(b) ==
    \A i, j \in DOMAIN presses' :
        (i < j /\ presses'[i].button = b /\ presses'[j].button = b
               /\ presses'[i].sent /\ presses'[j].sent) =>
            presses'[j].t - presses'[i].t >= BTN_DEBOUNCE_MS

\* C20 as stated: the discipline of last_time, at most one token per window,
\* and every accepted trigger sends the key token
C20_DebounceDiscipline ==
    [][ LET p == presses'[Len(presses')] IN
          /\ LastTimeDiscipline(p.button, p)
          /\ OncePerWindow(p.button)
          /\ p.accepted => uartTx' = uartTx \o on_click(p.button)
      ]_vars

\* C20, amended: the discipline of last_time, at most one token per window,
\* and an accepted trigger sends the key token, once, exactly when the pin
\* still reads low after the 10 ms settle delay
C20_DebounceDisciplineAmended ==
    [][ LET p == presses'[Len(presses')] IN
          /\ LastTimeDiscipline(p.button, p)
          /\ OncePerWindow(p.button)
          /\ p.accepted =>
                uartTx' = (IF p.sent THEN uartTx \o on_click(p.button) ELSE uartTx)
      ]_vars

\* The ENTER button was accepted twice, 200 ms or more apart:
\* the first time the pin had gone high again and nothing was sent, the second
\* time the token was sent; a trigger in between was suppressed
C20_Witness ==
    /\ Len(presses) = 3
    /\ \A i \in 1..3 : presses[i].button = "v"
    /\ presses[1].accepted /\ ~presses[1].sent
    /\ ~presses[2].accepted
    /\ presses[3].accepted /\ presses[3].sent
    /\ uartTx = KEY_ENTER

-----------------------------------------------------------------------------
(* Calls on the TerminalView, made directly *)

\* The state after a call on the grid that left grid t and returned w
Called(t, w) ==
    /\ term' = t
    /\ win' = w
    /\ UNCHANGED <<lcd, stream, pos, pc, ret, rf, callTerm, callLcd, callPos, rendered>>
    /\ UNCHANGED <<encVars, btnVars, hostVars>>

\* What window_lines(width, height) returned on grid t
Window(t, width, height) ==
    [called |-> TRUE, width |-> width, height |-> height,
     rows |-> t.rows, cols |-> t.cols, res |-> window_lines(t, width, height)]

MaxDim == 2
MaxWidth == 3
MaxHeight == 2

\* The payloads of rows*cols bytes tried: the cells numbered 'A', 'B', ...
\* in order, or every cell '.'
Payloads(rows, cols) ==
    {[i \in 1..(rows * cols) |-> 65 + ((i - 1) % 26)], [i \in 1..(rows * cols) |-> 46]}

View_apply_snapshot(rows, cols, data) ==
    /\ ~apply_raises(rows, cols, data)
    /\ Called(apply_snapshot(term, rows, cols, data), NoWindow)
    /\ UNCHANGED hist

View_scroll_v(delta) == Called(scroll_v(term, delta), NoWindow) /\ UNCHANGED hist

View_scroll_h(delta) == Called(scroll_h(term, delta), NoWindow) /\ UNCHANGED hist

View_window_lines(width, height) ==
    Called(term, Window(term, width, height)) /\ UNCHANGED hist

InitView == DevAt(SeenTerm, render(SeenTerm).lcd, <<>>) /\ EncIdle /\ BtnIdle /\ ViewIdle /\ HostIdle

NextView ==
    \/ \E rows \in 0..MaxDim : \E cols \in 0..MaxDim : \E data \in Payloads(rows, cols) :
            View_apply_snapshot(rows, cols, data)
    \/ \E delta \in {-1, 1, MaxDim} : View_scroll_v(delta)
    \/ \E delta \in {-1, 1, MaxDim} : View_scroll_h(delta)
    \/ \E width \in 0..MaxWidth : \E height \in 0..MaxHeight : View_window_lines(width, height)

SpecView == InitView /\ [][NextView]_vars

\* C7: window_lines(width, height) returns exactly height strings of exactly
\* width characters each, and every cell it reads has its row subscript in
\* [0, rows) and its column subscript in [0, cols), whatever calls came before
\* and also when rows or cols is 0.
C7_WindowInBounds ==
    win.called =>
        /\ ~win.res.raised
        /\ Len(win.res.lines) = win.height
        /\ \A i \in 1..Len(win.res.lines) : Len(win.res.lines[i]) = win.width
        /\ win.res.rowIdx \subseteq 0..(win.rows - 1)
        /\ win.res.colIdx \subseteq 0..(win.cols - 1)

-----------------------------------------------------------------------------
(* The scenario on the 24x80 grid *)

MaxOps == 3

\* The state after one more call, logged as op with argument arg
Logged(op, arg) ==
    /\ Len(hist) < MaxOps
    /\ hist' = Append(hist, [op |-> op, arg |-> arg])

\* apply_snapshot(24, 80, payload) with every byte of the payload b
Scn_apply_snapshot(b) ==
    /\ Called(apply_snapshot(term, TERM_ROWS, TERM_COLS, [i \in 1..(TERM_ROWS * TERM_COLS) |-> b]), NoWindow)
    /\ Logged("apply_snapshot", b)

Scn_scroll_v(delta) == Called(scroll_v(term, delta), NoWindow) /\ Logged("scroll_v", delta)

Scn_scroll_h(delta) == Called(scroll_h(term, delta), NoWindow) /\ Logged("scroll_h", delta)

Scn_window_lines == Called(term, Window(term, LCD_COLS, LCD_ROWS)) /\ Logged("window_lines", 0)

NextScenario ==
    \/ \E b \in {65, 46} : Scn_apply_snapshot(b)
    \/ \E delta \in {100, -1} : Scn_scroll_v(delta)
    \/ \E delta \in {1} : Scn_scroll_h(delta)
    \/ Scn_window_lines

\* The firmware as its main loop starts: the blank 24x80 grid under the splash
InitScenario == DevAt(BootTerm, Splash, <<>>) /\ EncIdle /\ BtnIdle /\ ViewIdle /\ HostIdle

SpecScenario == InitScenario /\ [][NextScenario]_vars

\* apply_snapshot(24, 80, all 'A'), scroll_v(+100), window_lines(16, 2)
ScenarioA ==
    << [op |-> "apply_snapshot", arg |-> 65],
       [op |-> "scroll_v", arg |-> 100],
       [op |-> "window_lines", arg |-> 0] >>

\* C8: from the initial 24x80 grid, apply_snapshot(24, 80, all 'A') then
\* scroll_v(+100) leaves the vertical offset at 23, and window_lines(16, 2)
\* then returns two strings of sixteen 'A' each.
C8_ScenarioAllA ==
    hist = ScenarioA =>
        /\ term.v_off = 23
        /\ win.called /\ ~win.res.raised
        /\ win.res.lines = <<[i \in 1..16 |-> 65], [i \in 1..16 |-> 65]>>

\* C8 witness: the three calls of the scenario have been made, and the
\* window read the grid's last row
C8_Witness == hist = ScenarioA /\ win.called /\ win.res.rowIdx = {TERM_ROWS - 1}

-----------------------------------------------------------------------------
(* main (pi_bridge.py, updated): the host's loop *)

SELECT_MS == 20
FLUSH_MS == 50
READ_MAX == 1024

\* "KEY:ENTER", "KEY:BACKSPACE" and "TXT:" as the host compares them
HOST_KEY_ENTER == <<75, 69, 89, 58, 69, 78, 84, 69, 82>>
HOST_KEY_BACKSPACE == <<75, 69, 89, 58, 66, 65, 67, 75, 83, 80, 65, 67, 69>>
HOST_TXT == <<84, 88, 84, 58>>

\* bytes.decode("ascii", "ignore") and, on what it yields,
\* str.encode("ascii", "ignore"): the bytes below 128
AsciiIgnore(bs) == SelectSeq(bs, LAMBDA b : b < 128)

\* The ASCII characters str.strip() removes
IsSpace(c) == c \in {9, 10, 11, 12, 13, 28, 29, 30, 31, 32}

\* str.strip()
Strip(str) ==
    LET keep == {i \in 1..Len(str) : ~IsSpace(str[i])}
    IN IF keep = {} THEN <<>>
       ELSE SubSeq(str, CHOOSE i \in keep : \A j \in keep : i <= j,
                        CHOOSE i \in keep : \A j \in keep : i >= j)

\* str.startswith(prefix)
StartsWith(str, prefix) ==
    Len(str) >= Len(prefix) /\ SubSeq(str, 1, Len(prefix)) = prefix

\* ser.readline() without a timeout: the bytes up to and including the first
\* newline, or all the bytes there are
readline(buf) ==
    LET nl == {i \in 1..Len(buf) : buf[i] = 10}
    IN IF nl = {} THEN buf ELSE SubSeq(buf, 1, CHOOSE i \in nl : \A j \in nl : i <= j)

\* The relay with a carriage return before the newline
Relay_crlf(ln) ==
    LET text == Strip(AsciiIgnore(ln))
    IN IF text = HOST_KEY_ENTER THEN <<13, 10>>
       ELSE IF text = HOST_KEY_BACKSPACE THEN <<8>>
       ELSE IF StartsWith(text, HOST_TXT) THEN AsciiIgnore(SubSeq(text, 5, Len(text)))
       ELSE <<>>

\* The relay with an unknown line taken as literal text
Relay_unknownAsText(ln) ==
    LET text == Strip(AsciiIgnore(ln))
    IN IF text = HOST_KEY_ENTER THEN <<10>>
       ELSE IF text = HOST_KEY_BACKSPACE THEN <<127>>
       ELSE IF StartsWith(text, HOST_TXT) THEN AsciiIgnore(SubSeq(text, 5, Len(text)))
       ELSE text

\* What the serial branch writes to the pty for the line ln it read
Relay(ln) ==
    LET text == Strip(AsciiIgnore(ln))
    IN IF text = HOST_KEY_ENTER THEN <<10>>
       ELSE IF text = HOST_KEY_BACKSPACE THEN <<127>>
       ELSE IF StartsWith(text, HOST_TXT) THEN AsciiIgnore(SubSeq(text, 5, Len(text)))
       ELSE <<>>

\* pyte.Screen(cols, rows) as created
BlankScreen(rows, cols) ==
    [lines |-> rows, columns |-> cols, display |-> [r \in 1..rows |-> Spaces(cols)]]

\* stream.feed(data.decode("utf-8", "ignore")), for output of single-byte
\* characters without control sequences: the characters fill the screen from
\* its first cell on, row by row
Feed(scr, data) ==
    LET text == AsciiIgnore(data)
    IN [scr EXCEPT !.display =
            [r \in 1..scr.lines |-> [c \in 1..scr.columns |->
                IF (r - 1) * scr.columns + c <= Len(text)
                THEN text[(r - 1) * scr.columns + c]
                ELSE scr.display[r][c]]]]

\* What select finds readable
Ready ==
    (IF ptyOut # <<>> \/ child = "exited" THEN {"pty"} ELSE {})
    \cup (IF kbd # <<>> THEN {"stdin"} ELSE {})
    \cup (IF serIn # <<>> THEN {"ser"} ELSE {})

MaxElapsed == 60

\* select.select([pty_fd, stdin_fd, ser], [], [], 0.02) returning after d ms:
\* at the timeout when nothing is readable
Select(d) ==
    /\ hpc = "select"
    /\ Ready = {} => d = SELECT_MS
    /\ wall + d <= 1000 + MaxElapsed
    /\ wall' = wall + d
    /\ rlist' = Ready
    /\ hpc' = "pty"
    /\ ptyData' = <<>>
    /\ UNCHANGED <<last_send, ptyOut, kbd, serIn, child, cbreak, serLine, wrote, events>>
    /\ UNCHANGED <<devVars, encVars, btnVars, viewVars, screen, sent, noise>>

\* The pty branch that reads the shell's output and leaves the screen as it
\* was
PtyBranch_unfed ==
    /\ hpc = "pty"
    /\ serLine' = <<>> /\ wrote' = <<>>
    /\ IF "pty" \notin rlist
       THEN hpc' = "stdin" /\ UNCHANGED <<ptyOut, screen, cbreak, ptyData>>
       ELSE IF ptyOut = <<>>
            THEN hpc' = "done" /\ cbreak' = FALSE /\ UNCHANGED <<ptyOut, screen, ptyData>>
            ELSE /\ ptyData' = SubSeq(ptyOut, 1, Min(READ_MAX, Len(ptyOut)))
                 /\ UNCHANGED screen
                 /\ ptyOut' = SubSeq(ptyOut, READ_MAX + 1, Len(ptyOut))
                 /\ hpc' = "stdin"
                 /\ UNCHANGED cbreak
    /\ UNCHANGED <<rlist, wall, last_send, kbd, serIn, child, events>>
    /\ UNCHANGED <<devVars, encVars, btnVars, viewVars, sent, noise>>

\* if pty_fd in rlist: os.read raises OSError once the shell has exited and
\* its output is read, and the loop breaks; finally restores stdin
PtyBranch ==
    /\ hpc = "pty"
    /\ serLine' = <<>> /\ wrote' = <<>>
    /\ IF "pty" \notin rlist
       THEN hpc' = "stdin" /\ UNCHANGED <<ptyOut, screen, cbreak, ptyData>>
       ELSE IF ptyOut = <<>>
            THEN hpc' = "done" /\ cbreak' = FALSE /\ UNCHANGED <<ptyOut, screen, ptyData>>
            ELSE /\ ptyData' = SubSeq(ptyOut, 1, Min(READ_MAX, Len(ptyOut)))
                 /\ screen' = Feed(screen, SubSeq(ptyOut, 1, Min(READ_MAX, Len(ptyOut))))
                 /\ ptyOut' = SubSeq(ptyOut, READ_MAX + 1, Len(ptyOut))
                 /\ hpc' = "stdin"
                 /\ UNCHANGED cbreak
    /\ UNCHANGED <<rlist, wall, last_send, kbd, serIn, child, events>>
    /\ UNCHANGED <<devVars, encVars, btnVars, viewVars, sent, noise>>

\* if stdin_fd in rlist: err tells which call raises OSError, os.read
\* ("read") or os.write ("write", which can fail once the shell has exited);
\* nothing catches it, finally restores stdin
StdinBranch(err) ==
    /\ hpc = "stdin"
    /\ err = "write" => child = "exited"
    /\ IF "stdin" \notin rlist
       THEN err = "none" /\ hpc' = "ser" /\ UNCHANGED <<kbd, wrote, cbreak>>
       ELSE IF err = "read"
            THEN hpc' = "raised" /\ cbreak' = FALSE /\ UNCHANGED <<kbd, wrote>>
            ELSE /\ kbd' = SubSeq(kbd, READ_MAX + 1, Len(kbd))
                 /\ IF err = "none"
                    THEN /\ wrote' = SubSeq(kbd, 1, Min(READ_MAX, Len(kbd)))
                         /\ hpc' = "ser"
                         /\ UNCHANGED cbreak
                    ELSE hpc' = "raised" /\ cbreak' = FALSE /\ UNCHANGED wrote
    /\ UNCHANGED <<rlist, wall, last_send, ptyOut, serIn, child, serLine, ptyData, events>>
    /\ UNCHANGED <<devVars, encVars, btnVars, viewVars, screen, sent, noise>>

\* if ser in rlist: the line is read and relayed; err tells which call
\* raises, ser.readline ("read") or os.write ("write", which can fail once
\* the shell has exited); the exception is swallowed
SerBranch(err) ==
    /\ hpc = "ser"
    /\ err = "write" => child = "exited"
    /\ IF "ser" \notin rlist
       THEN err = "none" /\ UNCHANGED <<serIn, serLine, wrote>>
       ELSE IF err = "read"
            THEN UNCHANGED <<serIn, serLine, wrote>>
            ELSE /\ serLine' = readline(serIn)
                 /\ serIn' = SubSeq(serIn, Len(readline(serIn)) + 1, Len(serIn))
                 /\ wrote' = IF err = "none" THEN Relay(readline(serIn)) ELSE <<>>
    /\ hpc' = "flush"
    /\ UNCHANGED <<rlist, wall, last_send, ptyOut, kbd, child, cbreak, ptyData, events>>
    /\ UNCHANGED <<devVars, encVars, btnVars, viewVars, screen, sent, noise>>

\* Flush stamping last_send only when the write succeeded
Flush_stampOnSuccess(ok) ==
    /\ hpc = "flush"
    /\ IF wall - last_send >= FLUSH_MS
       THEN /\ last_send' = IF ok THEN wall ELSE last_send
            /\ stream' = IF ok THEN stream \o frame_bytes(screen) ELSE stream
            /\ sent' = IF ok THEN sent + 1 ELSE sent
       ELSE ok /\ UNCHANGED <<last_send, stream, sent>>
    /\ hpc' = "select"
    /\ serLine' = <<>> /\ wrote' = <<>>
    /\ UNCHANGED ptyData
    /\ UNCHANGED <<rlist, wall, ptyOut, kbd, serIn, child, cbreak, events>>
    /\ UNCHANGED <<term, lcd, pos, pc, ret, rf, callTerm, callLcd, callPos, rendered>>
    /\ UNCHANGED <<encVars, btnVars, viewVars, screen, noise>>

\* The frame is written every FLUSH_MS at the earliest; ok tells whether
\* ser.write succeeded, its exception is swallowed. The iteration ends: what
\* it read and wrote is forgotten
Flush(ok) ==
    /\ hpc = "flush"
    /\ IF wall - last_send >= FLUSH_MS
       THEN /\ last_send' = wall
            /\ stream' = IF ok THEN stream \o frame_bytes(screen) ELSE stream
            /\ sent' = IF ok THEN sent + 1 ELSE sent
       ELSE ok /\ UNCHANGED <<last_send, stream, sent>>
    /\ hpc' = "select"
    /\ serLine' = <<>> /\ wrote' = <<>>
    /\ UNCHANGED ptyData
    /\ UNCHANGED <<rlist, wall, ptyOut, kbd, serIn, child, cbreak, events>>
    /\ UNCHANGED <<term, lcd, pos, pc, ret, rf, callTerm, callLcd, callPos, rendered>>
    /\ UNCHANGED <<encVars, btnVars, viewVars, screen, noise>>

HostLoop ==
    \/ \E d \in {0, SELECT_MS} : Select(d)
    \/ PtyBranch
    \/ \E err \in {"none", "read", "write"} : StdinBranch(err)
    \/ \E err \in {"none", "read", "write"} : SerBranch(err)
    \/ \E ok \in BOOLEAN : Flush(ok)

-----------------------------------------------------------------------------
(* The host's loop and what surrounds it *)

MaxEvents == 2
MaxText == 2

\* A control byte, a space, a letter and a byte that is not ASCII
TextBytes == {7, 32, 97, 200}

RECURSIVE TextsUpTo(_)
TextsUpTo(n) ==
    IF n = 0 THEN {<<>>}
    ELSE TextsUpTo(n - 1) \cup {Append(t, b) : t \in {u \in TextsUpTo(n - 1) : Len(u) = n - 1}, b \in TextBytes}

Texts == TextsUpTo(MaxText)

\* The serial line b"TXT:<text>\n"
TxtLine(text) == HOST_TXT \o text \o <<10>>

\* The lines the peer writes: the firmware's two tokens, KEY:ENTER ended by
\* CR LF, a token the host does not know, and TXT:<text> for every text
PeerLines ==
    {KEY_ENTER, KEY_BACKSPACE, HOST_KEY_ENTER \o <<13, 10>>, <<75, 69, 89, 58, 88, 10>>}
    \cup {TxtLine(t) : t \in Texts}

\* The peer writes one more line once the host has read the one before; the
\* line is on its way from a moment between two iterations of the loop, and
\* arrives whenever Ser_arrive delivers it
Peer_write(ln) ==
    /\ events < MaxEvents
    /\ hpc = "select"
    /\ uartTx = <<>> /\ serIn = <<>>
    /\ uartTx' = ln
    /\ events' = events + 1
    /\ UNCHANGED <<clock, btn, presses>>
    /\ UNCHANGED <<hpc, rlist, wall, last_send, ptyOut, kbd, serIn, child, cbreak, serLine, wrote, ptyData>>
    /\ UNCHANGED <<devVars, encVars, viewVars, screen, sent, noise>>

\* The sizes of a chunk, up to the longest line
ChunkSizes == 1..(Len(KEY_BACKSPACE) + MaxText)

\* The next k bytes on the line arrive at the host's serial port
Ser_arrive(k) ==
    /\ k <= Len(uartTx)
    /\ serIn' = serIn \o SubSeq(uartTx, 1, k)
    /\ uartTx' = SubSeq(uartTx, k + 1, Len(uartTx))
    /\ UNCHANGED <<clock, btn, presses>>
    /\ UNCHANGED <<hpc, rlist, wall, last_send, ptyOut, kbd, child, cbreak, serLine, wrote, ptyData, events>>
    /\ UNCHANGED <<devVars, encVars, viewVars, screen, sent, noise>>

\* The shell prints bs
Shell_output(bs) ==
    /\ events < MaxEvents
    /\ child = "alive" /\ ptyOut = <<>>
    /\ ptyOut' = bs
    /\ events' = events + 1
    /\ UNCHANGED <<hpc, rlist, wall, last_send, kbd, serIn, child, cbreak, serLine, wrote, ptyData>>
    /\ UNCHANGED <<devVars, encVars, btnVars, viewVars, screen, sent, noise>>

\* The user types bs on the host's keyboard
Key_typed(bs) ==
    /\ events < MaxEvents
    /\ kbd = <<>>
    /\ kbd' = bs
    /\ events' = events + 1
    /\ UNCHANGED <<hpc, rlist, wall, last_send, ptyOut, serIn, child, cbreak, serLine, wrote, ptyData>>
    /\ UNCHANGED <<devVars, encVars, btnVars, viewVars, screen, sent, noise>>

\* The shell exits
Child_exit ==
    /\ child = "alive"
    /\ child' = "exited"
    /\ UNCHANGED <<hpc, rlist, wall, last_send, ptyOut, kbd, serIn, cbreak, serLine, wrote, ptyData, events>>
    /\ UNCHANGED <<devVars, encVars, btnVars, viewVars, screen, sent, noise>>

\* KeyboardInterrupt (SIGINT) reaches the loop at any point; finally
\* restores stdin
Interrupt ==
    /\ hpc \in {"select", "pty", "stdin", "ser", "flush"}
    /\ hpc' = "interrupted"
    /\ cbreak' = FALSE
    /\ UNCHANGED <<rlist, wall, last_send, ptyOut, kbd, serIn, child, serLine, wrote, ptyData, events>>
    /\ UNCHANGED <<devVars, encVars, btnVars, viewVars, screen, sent, noise>>

\* main() up to its loop, started with --rows 1 --cols 2 at time t
HostAt(t) ==
    /\ DevAt(SeenTerm, render(SeenTerm).lcd, <<>>)
    /\ EncIdle /\ BtnIdle /\ ViewIdle
    /\ screen = BlankScreen(1, 2) /\ sent = 0 /\ noise = <<>>
    /\ LoopAt(t)

InitHost == HostAt(1000)

\* The loop started one select timeout before the end of the time observed
InitRelay == HostAt(1000 + MaxElapsed - SELECT_MS)

\* The loop with a live shell that prints nothing and an idle keyboard, and a
\* peer writing lines that arrive in chunks of any size
NextRelay ==
    \/ HostLoop
    \/ \E ln \in PeerLines : Peer_write(ln)
    \/ \E k \in ChunkSizes : Ser_arrive(k)

SpecRelay == InitRelay /\ [][NextRelay]_vars

\* The loop with shell output, keystrokes, the firmware's tokens and the
\* shell's exit
NextHost ==
    \/ HostLoop
    \/ \E ln \in {KEY_ENTER, TxtLine(<<97>>)} : Peer_write(ln)
    \/ \E k \in ChunkSizes : Ser_arrive(k)
    \/ \E bs \in {<<65>>, <<200, 66, 67>>} : Shell_output(bs)
    \/ \E bs \in {<<97>>} : Key_typed(bs)
    \/ Child_exit
    \/ Interrupt

SpecHost == InitHost /\ [][NextHost]_vars

\* The loop with shell output, keystrokes and a short serial line, the shell
\* staying alive and no signal arriving
NextFlush ==
    \/ HostLoop
    \/ \E ln \in {TxtLine(<<97>>)} : Peer_write(ln)
    \/ \E k \in ChunkSizes : Ser_arrive(k)
    \/ \E bs \in {<<65>>, <<200, 66, 67>>} : Shell_output(bs)
    \/ \E bs \in {<<97>>} : Key_typed(bs)

SpecFlush == InitHost /\ [][NextFlush]_vars

\* C9: when the serial branch has read the line KEY:ENTER (ended by LF, by
\* CR LF, or not yet ended) it has written exactly the one byte 0x0A to the
\* pty, and when it has read KEY:BACKSPACE exactly the one byte 0x7F.
C9_KeyRelay ==
    /\ serLine \in {KEY_ENTER, HOST_KEY_ENTER \o <<13, 10>>, HOST_KEY_ENTER} => wrote = <<10>>
    /\ serLine \in {KEY_BACKSPACE, HOST_KEY_BACKSPACE} => wrote = <<127>>

\* C9 witness: the loop has read a whole KEY:BACKSPACE line that arrived after
\* another line, and is about to flush
C9_Witness == serLine = KEY_BACKSPACE /\ hpc = "flush" /\ events = 2

\* C10: for the serial line TXT:<text> the host writes to the pty exactly the
\* bytes 0x20..0x7E of <text>, in order, leading and trailing spaces included.
C10_TextRelay ==
    \A t \in Texts :
        serLine = TxtLine(t) =>
            wrote = SelectSeq(t, LAMBDA b : PRINT_LO <= b /\ b <= PRINT_HI)

\* The token a serial line carries: its ASCII characters without the
\* whitespace around them
TokenOf(ln) == Strip(AsciiIgnore(ln))

\* A line that is not KEY:ENTER, KEY:BACKSPACE or a TXT: line
Unknown(ln) ==
    /\ TokenOf(ln) \notin {HOST_KEY_ENTER, HOST_KEY_BACKSPACE}
    /\ ~StartsWith(TokenOf(ln), HOST_TXT)

\* C11: for a line read from the serial port that is not KEY:ENTER,
\* KEY:BACKSPACE or a TXT: line, a partial line included, the host has written
\* nothing to the pty and the loop goes on to its flush; and a key token read
\* in the iteration, whatever was dropped before it, is relayed as itself.
C11_UnknownDropped ==
    /\ (serLine # <<>> /\ Unknown(serLine)) => (wrote = <<>> /\ hpc = "flush" /\ cbreak)
    /\ (serLine # <<>> /\ TokenOf(serLine) = HOST_KEY_ENTER) => wrote = <<10>>
    /\ (serLine # <<>> /\ TokenOf(serLine) = HOST_KEY_BACKSPACE) => wrote = <<127>>

\* C11 witness: the loop has read the partial line "KEY:" of the second line
\* the peer wrote, before the rest of it arrived
C11_Witness ==
    /\ serLine = <<75, 69, 89, 58>> /\ hpc = "flush" /\ events = 2
    /\ uartTx # <<>>

\* C12: the loop is left only by a shutdown signal or by the read error on
\* the pty; no error of the keyboard read, of the keyboard write to the pty,
\* of the serial read or of the frame write ends it; and whenever it is left,
\* stdin's settings have been restored.
C12_LoopExit ==
    hpc \notin {"select", "pty", "stdin", "ser", "flush"} =>
        (hpc \in {"done", "interrupted"} /\ ~cbreak)

\* C13: when an iteration that read shell output writes a frame, the frame
\* holds that output (the screen's first cells are the output's characters);
\* and the loop takes its flush decision only at its flush step, which it
\* reaches from the pty branch through the stdin and the serial branch.
C13_FlushAfterFeed ==
    [][ /\ (hpc = "flush" /\ ptyData # <<>> /\ stream' # stream) =>
              LET frm  == SubSeq(stream', Len(stream) + 1, Len(stream'))
                  text == AsciiIgnore(ptyData)
              IN /\ Len(frm) = 5 + screen.lines * screen.columns
                 /\ \A i \in 1..Min(Len(text), screen.lines * screen.columns) :
                        frm[4 + i] = HostChar(text[i])
        /\ last_send' # last_send => hpc = "flush"
        /\ (hpc' = "flush" /\ hpc # "flush") => hpc = "ser"
        /\ (hpc' = "ser" /\ hpc # "ser") => hpc = "stdin"
        /\ (hpc' = "stdin" /\ hpc # "stdin") => hpc = "pty"
      ]_vars

\* C13 witness: an iteration has read the shell's output "A" and written the
\* frame that shows it
C13_Witness ==
    /\ hpc = "select" /\ ptyData = <<65>> /\ last_send = wall
    /\ Len(stream) >= 7 /\ SubSeq(stream, Len(stream) - 2, Len(stream)) = <<65, 32, ETX>>

\* C18: the iteration's last step is the flush, reached from the serial
\* branch whatever select returned.  When wall - last_send >= FLUSH_MS it
\* writes the frame of the current grid or the write raises, and either way
\* last_send becomes the current time and the loop goes on; otherwise it
\* writes nothing and leaves last_send.  So a frame is written only when a
\* flush interval has passed since the last attempt.
C18_PeriodicFlush ==
    [][ /\ (hpc = "ser" /\ hpc' # "ser") => hpc' = "flush"
        /\ (hpc = "flush" /\ hpc' # "flush") =>
              /\ hpc' = "select" /\ cbreak'
              /\ IF wall - last_send >= FLUSH_MS
                 THEN /\ last_send' = wall
                      /\ stream' \in {stream \o frame_bytes(screen), stream}
                 ELSE last_send' = last_send /\ stream' = stream
        /\ stream' # stream => (hpc = "flush" /\ wall - last_send >= FLUSH_MS)
      ]_vars

\* The first flush's write raised; three select timeouts later, with no
\* source ready, the next flush wrote the frame
C18_Witness ==
    /\ hpc = "select" /\ rlist = {} /\ cbreak
    /\ last_send = wall /\ wall = 1000 + 3 * SELECT_MS
    /\ sent = 1 /\ stream = frame_bytes(screen)

(***************************************************************************)
(* SpecDevice: the firmware as it runs.  The host's frames arrive on the   *)
(* link while the main loop parses and applies them, and the encoder       *)
(* interrupt handlers run between any two steps of the main loop.          *)
(***************************************************************************)

MaxFrames == 1
MaxScrolls == 2

\* What the host puts on the wire for a rows x cols grid holding data
Frame(rows, cols, data) == <<STX, CMD_S, rows, cols>> \o data \o <<ETX>>

\* Frames of the grid the device already shows, of smaller and larger
\* grids, of grids without rows or without columns, and a damaged frame
LinkFrames ==
    { Frame(2, 2, <<65, 66, 67, 68>>),
      Frame(2, 1, <<69, 70>>),
      Frame(3, 1, <<71, 72, 73>>),
      Frame(0, 1, <<>>),
      Frame(1, 0, <<>>),
      <<STX, CMD_S, 2, 1, 69, 70, 0>> }

\* The host writes frame f to the serial link
Link_frame(f) ==
    /\ sent < MaxFrames
    /\ sent' = sent + 1
    /\ stream' = stream \o f
    /\ UNCHANGED <<term, lcd, pos, pc, ret, rf, callTerm, callLcd, callPos, rendered, encVars, btnVars, viewVars, screen, noise, loopVars>>

\* An edge on encoder e's pins schedules its handler, which runs before the
\* main loop's next step
Encoder_irq(e, state) ==
    /\ encObs["v"].edges + encObs["h"].edges < MaxScrolls
    /\ Encoder_handler(e, state)

InitDevice == DevAt(SeenTerm, render(SeenTerm).lcd, <<>>) /\ EncIdle /\ BtnIdle /\ ViewIdle /\ HostIdle

NextDevice ==
    \/ MainLoop
    \/ \E f \in LinkFrames : Link_frame(f)
    \/ \E e \in Encoders : \E state \in 0..3 : Encoder_irq(e, state)

SpecDevice == InitDevice /\ [][NextDevice]_vars

\* The offsets of view t
Offsets(t) == <<t.v_off, t.h_off>>

\* C14: a step changes an offset only if it is a scroll step of an encoder
\* handler or one of the two resetting assignments of a resize, which set it
\* to 0; a snapshot of different dimensions always passes through the resize
\* and one of the same dimensions never does; and an accepted frame that no
\* scroll step accompanied leaves the offsets as they were when the
\* dimensions are the same and at (0, 0) when they differ, while a rejected
\* frame leaves them as they were.
C14_OffsetsChange ==
    [][ /\ term'.v_off # term.v_off =>
              \/ enc' # enc
              \/ pc = "resize" /\ term'.v_off = 0
        /\ term'.h_off # term.h_off =>
              \/ enc' # enc
              \/ pc = "resize" /\ term'.h_off = 0
        /\ (pc = "etx" /\ pc' \in {"resize", "fill"}) =>
              (pc' = "resize" <=> (rf.rows # term.rows \/ rf.cols # term.cols))
        /\ (pc = "resize" /\ pc' = "fill" /\ enc' = enc) => term'.h_off = 0
        /\ (pc' = "sleep" /\ pc # "sleep" /\ enc' = enc
              /\ encObs["v"].edges + encObs["h"].edges = 0) =>
              Offsets(term') =
                 IF ret' /\ (term'.rows # callTerm.rows \/ term'.cols # callTerm.cols)
                 THEN <<0, 0>> ELSE Offsets(callTerm)
      ]_vars

\* A frame of a different grid was accepted and reset offsets that were not
\* zero, and a scroll step moved one of them afterwards
C14_Witness ==
    /\ pc = "sleep" /\ ret /\ term.rows = 3 /\ term.cols = 1
    /\ callTerm.v_off = 1 /\ Offsets(term) = <<2, 0>>
    /\ encObs["v"].edges = 2


\* C15 as stated: whenever no resize is in progress, 0 <= v_off <= rows-1
\* and 0 <= h_off <= cols-1 for the current grid dimensions
C15_OffsetInvariant ==
    pc # "resize" =>
        /\ 0 <= term.v_off /\ term.v_off <= term.rows - 1
        /\ 0 <= term.h_off /\ term.h_off <= term.cols - 1

\* C15, amended: whenever no resize is in progress, 0 <= v_off <=
\* max(rows-1, 0) and 0 <= h_off <= max(cols-1, 0) for the current grid
\* dimensions: an offset of a grid without rows or columns is 0
C15_OffsetInvariantAmended ==
    pc # "resize" =>
        /\ 0 <= term.v_off /\ term.v_off <= Max(term.rows - 1, 0)
        /\ 0 <= term.h_off /\ term.h_off <= Max(term.cols - 1, 0)

\* A frame without rows was accepted and both scroll steps of the vertical
\* encoder have run
C15_Witness ==
    /\ term.rows = 0 /\ term.cols = 1 /\ Offsets(term) = <<0, 0>>
    /\ pc = "crashed" /\ encObs["v"].count = 2

\* apply_snapshot has made its first assignment and not yet its last
ApplyInProgress ==
    \/ pc = "resize" /\ rf.idx >= 1
    \/ pc = "fill" /\ 0 < rf.idx /\ rf.idx < rf.rows * rf.cols

\* C16: no step of an encoder handler that calls its step callback, and with
\* it render and window_lines, is taken while apply_snapshot is in progress
C16_NoRenderDuringApply ==
    [][ApplyInProgress => enc' = enc]_vars

\* The four forward pairs (last, new) of Encoder._handler, as phases (a<<1)|b
ForwardPairs == {<<0, 1>>, <<1, 3>>, <<3, 2>>, <<2, 0>>}

\* C19: on every run of an encoder's handler with the pins at phase new, the
\* step callback is invoked exactly once with +1 when (last, new) is a forward
\* pair, exactly once with -1 for every other pair with new # last, and not
\* at all when new = last; after a run with new # last the stored last phase
\* is new, also when the callback's render raised.
C19_SingleStep ==
    [][ \A e \in Encoders :
          encObs'[e].edges = encObs[e].edges + 1 =>
             LET last == enc[e].last
                 new  == encObs'[e].seen
                 d    == IF <<last, new>> \in ForwardPairs THEN 1 ELSE -1
             IN IF new = last
                THEN /\ encObs'[e].count = encObs[e].count
                     /\ encObs'[e].sum = encObs[e].sum
                     /\ term' = term /\ lcd' = lcd /\ enc' = enc
                ELSE /\ encObs'[e].count = encObs[e].count + 1
                     /\ encObs'[e].sum = encObs[e].sum + d
                     /\ term' = (IF e = "v" THEN scroll_v(term, -d) ELSE scroll_h(term, d))
                     /\ enc'[e].last = new
      ]_vars

\* The vertical encoder made a two-bit jump 11 -> 00 while a snapshot was
\* being applied: counted as one step of -1, the callback's render raised,
\* and the stored phase is 00
C19_Witness ==
    /\ encObs["v"].edges = 1 /\ encObs["v"].count = 1 /\ encObs["v"].sum = -1
    /\ enc["v"].last = 0 /\ encObs["h"].edges = 0
    /\ ApplyInProgress /\ render(term).raised

(***************************************************************************)
(* SpecStall: the link delivers a transmission of the host byte by byte    *)
(* and may stop delivering at any point; the main loop keeps running.      *)
(***************************************************************************)

MaxWire == 14

\* What the host may have written: frames back to back
Transmissions ==
    { Frame(2, 1, <<69, 70>>) \o Frame(2, 1, <<71, 72>>),
      Frame(2, 2, <<65, 66, 67, 68>>) \o Frame(2, 1, <<69, 70>>),
      Frame(1, 2, <<74, 75>>) \o Frame(2, 1, <<69, 70>>),
      Frame(0, 1, <<>>) \o Frame(3, 1, <<71, 72, 73>>) \o <<STX, CMD_S>> }

\* The next byte of transmission f reaches the device's UART
Link_deliver(f) ==
    /\ Len(stream) < Min(Len(f), MaxWire)
    /\ stream = SubSeq(f, 1, Len(stream))
    /\ stream' = SubSeq(f, 1, Len(stream) + 1)
    /\ UNCHANGED <<term, lcd, pos, pc, ret, rf, callTerm, callLcd, callPos, rendered, encVars, btnVars, viewVars, hostVars>>

InitStall == DevAt(SeenTerm, render(SeenTerm).lcd, <<>>) /\ EncIdle /\ BtnIdle /\ ViewIdle /\ HostIdle

NextStall == MainLoop \/ \E f \in Transmissions : Link_deliver(f)

\* The main program is always running: a step of the main loop that is
\* possible is eventually taken.  Nothing obliges the link to deliver.
SpecStall == InitStall /\ [][NextStall]_vars /\ WF_vars(MainLoop)

\* read_frame is in its payload loop and the bytes read so far and those
\* waiting in the UART are fewer than the header announced
Starved == pc = "data" /\ Len(rf.data) + Len(Rx) < rf.total

\* The payload loop's missing bytes and one more have been delivered
Delivered == pc = "data" /\ Len(rf.data) + Len(Rx) >= rf.total + 1

\* C17: while fewer payload bytes have been delivered than the header
\* announced, every step leaves read_frame in its payload loop: it does not
\* return, the call that began at callPos is still the current one and no
\* main-loop render happens; and once the payload bytes and one more byte
\* have been delivered, read_frame eventually returns.
C17_MidFrameStall ==
    /\ [][Starved => /\ pc' = "data"
                     /\ ret' = ret /\ rendered' = rendered
                     /\ callPos' = callPos /\ term' = term /\ lcd' = lcd]_vars
    /\ (Delivered ~> pc \in {"sleep", "crashed"})

\* The link stopped inside the second frame's payload: the first frame is
\* shown, the second frame's header and one of its two payload bytes are read
C17_Witness ==
    /\ Starved /\ Rx = <<>> /\ pos = 12 /\ Len(rf.data) = 1
    /\ term.buffer = <<<<69>>, <<70>>>>

-----------------------------------------------------------------------------
(* SpecFrame: the link delivers arbitrary bytes, one at a time, at arbitrary  *)
(* moments of the main loop.                                                *)

MaxStream == 6

\* Start and end marker, the type byte (also a printable cell), and the
\* dimensions 0..3
LinkBytes == {0, 1, STX, ETX, CMD_S}

Arrive(b) ==
    /\ Len(stream) < MaxStream
    /\ stream' = Append(stream, b)
    /\ UNCHANGED <<term, lcd, pos, pc, ret, rf, callTerm, callLcd, callPos, rendered, encVars, btnVars, viewVars, hostVars>>


InitFrame == DevAt(SeenTerm, render(SeenTerm).lcd, <<>>) /\ EncIdle /\ BtnIdle /\ ViewIdle /\ HostIdle

NextFrame == MainLoop \/ \E b \in LinkBytes : Arrive(b)

SpecFrame == InitFrame /\ [][NextFrame]_vars

-----------------------------------------------------------------------------
(* SpecCodec: the host writes whole frames of its screen; before the first   *)
(* one the line may have delivered noise. The device reads as in SpecFrame.  *)

MaxCells == 3
MaxGarbage == 2
MaxFlush == 1

\* A control character, a printable one, DEL, and a non-ASCII character
HostChars == {7, 65, 127, 233}

\* A start marker and a printable byte
NoiseBytes == {STX, 65}

RECURSIVE SeqsUpTo(_, _)
SeqsUpTo(S, n) ==
    IF n = 0 THEN {<<>>}
    ELSE LET shorter == SeqsUpTo(S, n - 1)
         IN shorter \cup {Append(q, x) : q \in {t \in shorter : Len(t) = n - 1}, x \in S}

Geoms == {g \in (1..MaxCells) \X (1..MaxCells) : g[1] * g[2] <= MaxCells}

\* Every small screen, and two screens of the largest dimension a frame carries
Screens ==
    UNION {[lines : {g[1]}, columns : {g[2]},
            display : [1..g[1] -> [1..g[2] -> HostChars]]] : g \in Geoms}
    \cup {[lines |-> 255, columns |-> 1, display |-> [r \in 1..255 |-> <<65>>]],
          [lines |-> 1, columns |-> 255, display |-> <<[c \in 1..255 |-> 233]>>]}

InitCodec ==
    /\ screen \in Screens
    /\ noise \in SeqsUpTo(NoiseBytes, MaxGarbage)
    /\ sent = 0
    /\ DevAt(SeenTerm, render(SeenTerm).lcd, noise)
    /\ EncIdle
    /\ BtnIdle
    /\ ViewIdle
    /\ LoopIdle

\* ser.write(frame_bytes(screen)): the whole frame reaches the device's buffer
HostFlush ==
    /\ sent < MaxFlush
    /\ sent' = sent + 1
    /\ stream' = stream \o frame_bytes(screen)
    /\ UNCHANGED <<term, lcd, pos, pc, ret, rf, callTerm, callLcd, callPos, rendered, encVars, btnVars, viewVars, screen, noise, loopVars>>

NextCodec == MainLoop \/ HostFlush

SpecCodec == InitCodec /\ [][NextCodec]_vars

-----------------------------------------------------------------------------
(* Frames as the wire protocol defines them *)

\* f is one well-formed frame: markers, type, and rows*cols printable bytes
WellFormed(f) ==
    /\ Len(f) >= 5
    /\ f[1] = STX /\ f[2] = CMD_S
    /\ Len(f) = 5 + f[3] * f[4]
    /\ f[Len(f)] = ETX
    /\ \A i \in 5..(Len(f) - 1) : PRINT_LO <= f[i] /\ f[i] <= PRINT_HI

\* The device grid is exactly the grid of the well-formed frame f
ShowsFrame(f) ==
    /\ term.rows = f[3] /\ term.cols = f[4]
    /\ \A r \in 1..f[3] : \A c \in 1..f[4] :
          term.buffer[r][c] = f[4 + (r - 1) * f[4] + c]

\* The bytes from the start of the current read_frame call on
FromCall == SubSeq(stream, callPos + 1, Len(stream))

\* The current call began at a correct header announcing a non-empty payload
AtHeader ==
    /\ Len(FromCall) >= 4
    /\ FromCall[1] = STX /\ FromCall[2] = CMD_S
    /\ FromCall[3] * FromCall[4] >= 1

\* ... and the stream holds, after that header, fewer bytes than the payload
\* and its end marker need: at least one payload byte is missing
Truncated == AtHeader /\ Len(FromCall) - 4 <= FromCall[3] * FromCall[4]

\* C2: while the stream from a correct header on is a frame whose payload is
\* truncated by at least one byte, the read_frame call that began at that
\* header has not returned True and the grid is as it was when the call began
\* (apply_snapshot was not called).
C2_TruncatedNeverApplied == Truncated => (~ret /\ term = callTerm)

\* C2 witness: the call read the header and part of the payload, and waits in
\* its payload loop with nothing left to read
C2_Witness ==
    /\ Truncated
    /\ pc = "data" /\ Len(rf.data) >= 1 /\ Len(Rx) = 0

\* C3 as claimed: once the device has read all of a stream that is garbage
\* followed by one well-formed frame and is back at the top of its loop, that
\* frame's grid has been applied.
C3_ResyncApplies ==
    \A k \in 0..Len(stream) :
        (/\ pos = Len(stream)
         /\ pc \in {"poll", "sleep"}
         /\ WellFormed(SubSeq(stream, k + 1, Len(stream))))
        => ShowsFrame(SubSeq(stream, k + 1, Len(stream)))

\* C4: when read_frame has returned False, the grid (dimensions, cells and both
\* offsets) and the LCD are as they were when the call began, and the main
\* loop did not render.
C4_InvalidDiscarded ==
    (pc = "sleep" /\ ~ret) => (term = callTerm /\ lcd = callLcd /\ ~rendered)

\* C4 witness: a call that read a header, a payload and a wrong end marker
\* has returned False
C4_Witness ==
    /\ pc = "sleep" /\ ~ret
    /\ AtHeader
    /\ pos = callPos + 5 + FromCall[3] * FromCall[4]

-----------------------------------------------------------------------------
(* Round trip *)

\* sanitize of the specification: anything outside 0x20..0x7E becomes a space
sanitize(x) == IF x < 32 \/ x > 126 THEN 32 ELSE x

\* C1: with no noise on the line, a read_frame call that read the host's frame
\* returns True and leaves the device grid with the screen's rows and cols and
\* every cell equal to sanitize of the screen's cell.
C1_RoundTrip ==
    (noise = <<>> /\ pc = "sleep" /\ pos > callPos) =>
        /\ ret
        /\ term.rows = screen.lines /\ term.cols = screen.columns
        /\ \A r \in 1..screen.lines : \A c \in 1..screen.columns :
              term.buffer[r][c] = sanitize(screen.display[r][c])

\* C1 witness: a frame of a non-square screen holding a character that is not
\* printable was decoded
C1_Witness ==
    /\ noise = <<>> /\ pc = "sleep" /\ ret
    /\ screen.lines # screen.columns
    /\ \E r \in 1..screen.lines : \E c \in 1..screen.columns :
          screen.display[r][c] # sanitize(screen.display[r][c])

-----------------------------------------------------------------------------
(***************************************************************************)
(* SpecEmit: the host started with --rows and --cols as argparse accepts   *)
(* them (any int), and the device reading what the host writes.            *)
(***************************************************************************)

MaxGeom == 257

\* The dimensions tried for --rows and --cols: small ones, and those around
\* the largest value a count byte holds
GeomArgs == {1, 2} \cup 254..MaxGeom

\* The screen after the shell filled it with the character ch
Filled(scr, ch) ==
    [scr EXCEPT !.display = [r \in 1..scr.lines |-> [c \in 1..scr.columns |-> ch]]]

\* main up to the loop, with one dimension from GeomArgs and the other 1 or
\* 2; the screen blank, or full of 'A', or full of a non-ASCII character
InitEmit ==
    /\ \E n \in GeomArgs : \E m \in {1, 2} : \E ch \in {SPACE, 65, 233} :
          \/ screen = Filled(BlankScreen(n, m), ch)
          \/ screen = Filled(BlankScreen(m, n), ch)
    /\ noise = <<>>
    /\ sent = 0
    /\ DevAt(SeenTerm, render(SeenTerm).lcd, noise)
    /\ EncIdle
    /\ BtnIdle
    /\ ViewIdle
    /\ LoopIdle

NextEmit == MainLoop \/ HostFlush

SpecEmit == InitEmit /\ [][NextEmit]_vars

\* C21: the frame the host has written for its screen is well-formed: start
\* marker, 'S', as many payload bytes as the product of its two count bytes,
\* every payload byte in 0x20..0x7E, end marker last
C21_EmittedWellFormed ==
    sent > 0 => WellFormed(frame_bytes(screen))

=============================================================================
